---- MODULE Spec2Model ----
(***************************************************************************)
(* featherpd: the timestamp oracle of FeatherPD (src/src/server.rs) and    *)
(* the error <-> tonic::Status codec (src/src/error.rs).                   *)
(***************************************************************************)
EXTENDS Integers, Sequences, FiniteSets, TLC

VARIABLES
    counter,        \* the u64 behind FeatherPD.next_ts (Arc<Mutex<u64>>)
    poisoned,       \* the poison flag of the Mutex
    holder,         \* the caller that holds the MutexGuard, or NoCaller
    overflowChecks, \* the build: TRUE = overflow checks on (debug), FALSE = off (release)
    pc,             \* position of each caller inside get_next_ts
    local,          \* the value each caller read at `*next_ts`
    outcome,        \* how each call ended
    metPoison,      \* history: the caller found the Mutex poisoned at lock()
    results,        \* history: the calls in the order they returned to their callers
    sequential,     \* history: no call was started while another was in progress
    rpc,            \* state of each inbound RPC of the PlacementDriver service
    cin,            \* codec: the Error handed to encode, or NoError
    status,         \* codec: the tonic::Status in flight, or NoStatus
    cout            \* codec: the Error produced by decode, or NoError

tsoVars == <<counter, poisoned, holder, overflowChecks, pc, local, outcome,
             metPoison, results, sequential>>
codecVars == <<cin, status, cout>>
vars == <<counter, poisoned, holder, overflowChecks, pc, local, outcome,
          metPoison, results, sequential, rpc, cin, status, cout>>

----------------------------------------------------------------------------
(* Bounds *)
NumCallers == 3
NumRpcs == 1
TopGap == 1

Callers == 1..NumCallers
RpcIds == 1..NumRpcs
NoCaller == 0

----------------------------------------------------------------------------
(* u64 arithmetic.  A u64 is kept as NumLimbs limbs of LimbBits bits, most  *)
(* significant limb first, so that the full 64-bit range is represented.   *)
U64Bits == 64
LimbBits == U64Bits \div 4
LimbBase == 2^LimbBits
NumLimbs == U64Bits \div LimbBits

U64(n) == [i \in 1..NumLimbs |-> IF i = NumLimbs THEN n ELSE 0]
U64Max == [i \in 1..NumLimbs |-> LimbBase - 1]
U64Less(a, b) ==
    \E i \in 1..NumLimbs : a[i] < b[i] /\ \A j \in 1..(i-1) : a[j] = b[j]
U64Leq(a, b) == a = b \/ U64Less(a, b)

RECURSIVE AddCarry(_, _)
AddCarry(c, i) ==
    IF i = 0 THEN c
    ELSE IF c[i] = LimbBase - 1 THEN AddCarry([c EXCEPT ![i] = 0], i - 1)
    ELSE [c EXCEPT ![i] = c[i] + 1]
\* c.wrapping_add(1): what `+= 1` stores when overflow checks are off
WrappingAdd1(c) == AddCarry(c, NumLimbs)
\* c.checked_add(1).is_none(): when `+= 1` panics if overflow checks are on
AddOverflows(c) == c = U64Max

----------------------------------------------------------------------------
(* FeatherPD::new *)
New(start) ==
    /\ counter = start
    /\ poisoned = FALSE
    /\ holder = NoCaller
    /\ overflowChecks \in BOOLEAN
    /\ pc = [t \in Callers |-> "idle"]
    /\ local = [t \in Callers |-> U64(0)]
    /\ outcome = [t \in Callers |-> "none"]
    /\ metPoison = [t \in Callers |-> FALSE]
    /\ results = <<>>
    /\ sequential = TRUE
    /\ rpc = [r \in RpcIds |-> [method |-> "none", state |-> "pending"]]

InProgress(t) == pc[t] \in {"lock", "inc", "read", "unlock", "ret"}

\* a caller enters get_next_ts
Call(t) ==
    /\ pc[t] = "idle"
    /\ pc' = [pc EXCEPT ![t] = "lock"]
    /\ sequential' = (sequential /\ \A u \in Callers : ~InProgress(u))
    /\ UNCHANGED <<counter, poisoned, holder, overflowChecks, local, outcome,
                   metPoison, results, rpc, codecVars>>

\* faulty variant: the counter is taken without mutual exclusion
LockNoExclusion(t) ==
    /\ pc[t] = "lock"
    /\ pc' = [pc EXCEPT ![t] = "inc"]
    /\ holder' = t
    /\ UNCHANGED <<counter, poisoned, overflowChecks, local, outcome,
                   metPoison, results, sequential, rpc, codecVars>>

\* let mut next_ts = self.next_ts.lock().unwrap();
Lock(t) ==
    /\ pc[t] = "lock"
    /\ holder = NoCaller
    /\ IF poisoned
       THEN \* lock() is Err(PoisonError); unwrap panics, the guard inside
            \* the error is dropped during unwinding
            /\ pc' = [pc EXCEPT ![t] = "panicked"]
            /\ outcome' = [outcome EXCEPT ![t] = "panic_poisoned"]
            /\ metPoison' = [metPoison EXCEPT ![t] = TRUE]
            /\ UNCHANGED holder
       ELSE /\ pc' = [pc EXCEPT ![t] = "inc"]
            /\ holder' = t
            /\ UNCHANGED <<outcome, metPoison>>
    /\ UNCHANGED <<counter, poisoned, overflowChecks, local, results,
                   sequential, rpc, codecVars>>

\* *next_ts += 1;
Increment(t) ==
    /\ pc[t] = "inc"
    /\ IF overflowChecks /\ AddOverflows(counter)
       THEN \* "attempt to add with overflow": the guard is dropped while
            \* the thread is panicking, which poisons the Mutex
            /\ pc' = [pc EXCEPT ![t] = "panicked"]
            /\ outcome' = [outcome EXCEPT ![t] = "panic_overflow"]
            /\ poisoned' = TRUE
            /\ holder' = NoCaller
            /\ UNCHANGED counter
       ELSE /\ counter' = WrappingAdd1(counter)
            /\ pc' = [pc EXCEPT ![t] = "read"]
            /\ UNCHANGED <<outcome, poisoned, holder>>
    /\ UNCHANGED <<overflowChecks, local, metPoison, results, sequential,
                   rpc, codecVars>>

\* *next_ts   (the value of the function, read through the guard)
Read(t) ==
    /\ pc[t] = "read"
    /\ local' = [local EXCEPT ![t] = counter]
    /\ pc' = [pc EXCEPT ![t] = "unlock"]
    /\ UNCHANGED <<counter, poisoned, holder, overflowChecks, outcome,
                   metPoison, results, sequential, rpc, codecVars>>

\* faulty variant: the guard is leaked (std::mem::forget), the Mutex stays locked
UnlockLeak(t) ==
    /\ pc[t] = "unlock"
    /\ pc' = [pc EXCEPT ![t] = "ret"]
    /\ UNCHANGED <<counter, poisoned, holder, overflowChecks, local, outcome,
                   metPoison, results, sequential, rpc, codecVars>>

\* } : the MutexGuard goes out of scope
Unlock(t) ==
    /\ pc[t] = "unlock"
    /\ holder' = IF holder = t THEN NoCaller ELSE holder
    /\ pc' = [pc EXCEPT ![t] = "ret"]
    /\ UNCHANGED <<counter, poisoned, overflowChecks, local, outcome,
                   metPoison, results, sequential, rpc, codecVars>>

\* the u64 reaches the caller
Return(t) ==
    /\ pc[t] = "ret"
    /\ pc' = [pc EXCEPT ![t] = "done"]
    /\ outcome' = [outcome EXCEPT ![t] = "ok"]
    /\ results' = Append(results, [caller |-> t, value |-> local[t]])
    /\ UNCHANGED <<counter, poisoned, holder, overflowChecks, local,
                   metPoison, sequential, rpc, codecVars>>

get_next_ts(t) ==
    \/ Lock(t)
    \/ Increment(t)
    \/ Read(t)
    \/ Unlock(t)
    \/ Return(t)

\* async fn get_timestamp: todo!()
get_timestamp(r) ==
    /\ rpc[r].state = "pending"
    /\ rpc' = [rpc EXCEPT ![r] = [method |-> "GetTimestamp", state |-> "panicked"]]
    /\ UNCHANGED <<tsoVars, codecVars>>

\* async fn get_data_location: todo!()
get_data_location(r) ==
    /\ rpc[r].state = "pending"
    /\ rpc' = [rpc EXCEPT ![r] = [method |-> "GetDataLocation", state |-> "panicked"]]
    /\ UNCHANGED <<tsoVars, codecVars>>

NoError == [kind |-> "none"]
NoStatus == [code |-> "none"]
CodecIdle == cin = NoError /\ status = NoStatus /\ cout = NoError

Init == New(U64(0)) /\ CodecIdle
InitTop ==
    /\ \E k \in 0..TopGap : New([U64Max EXCEPT ![NumLimbs] = LimbBase - 1 - k])
    /\ CodecIdle

Next ==
    \/ \E t \in Callers : Call(t)
    \/ \E t \in Callers : get_next_ts(t)
    \/ \E r \in RpcIds : get_timestamp(r)
    \/ \E r \in RpcIds : get_data_location(r)

\* a client that starts a call only when no other call is in progress
SerialCall(t) ==
    /\ \A u \in Callers : ~InProgress(u)
    /\ Call(t)

NextSerial ==
    \/ \E t \in Callers : SerialCall(t)
    \/ \E t \in Callers : get_next_ts(t)
    \/ \E r \in RpcIds : get_timestamp(r)
    \/ \E r \in RpcIds : get_data_location(r)

Spec == Init /\ [][Next]_vars
SpecTop == InitTop /\ [][Next]_vars
SpecTopSerial == InitTop /\ [][NextSerial]_vars
\* every thread inside get_next_ts is eventually scheduled
FairSpec == Spec /\ \A t \in Callers : WF_vars(get_next_ts(t))


----------------------------------------------------------------------------
(* The error codec.  A string is a sequence of characters. *)

MaxLen == 4
MaxPre == 1
MaxPost == 2

SP == " "
TAB == "\t"
NL == "\n"
DQ == "\""
BSL == "\\"
Alphabet == {"a", SP, TAB, DQ}

RECURSIVE Strings(_)
Strings(n) ==
    IF n = 0 THEN {<<>>}
    ELSE LET shorter == Strings(n - 1)
         IN shorter \cup {Append(s, c) : s \in shorter, c \in Alphabet}

\* enum Error
StringKinds == {"Config", "Internal", "Parse", "Value"}
UnitKinds == {"Abort", "ReadOnly", "Serialization", "NotLeader"}
Details == Strings(MaxLen)
Errors ==
    {[kind |-> k, detail |-> s] : k \in StringKinds, s \in Details}
        \cup {[kind |-> k] : k \in UnitKinds}

TagConfig ==
    <<"[", "C", "o", "n", "f", "i", "g", "]">>

TagInternal ==
    <<"[", "I", "n", "t", "e", "r", "n", "a", "l", "]">>

TagParse ==
    <<"[", "P", "a", "r", "s", "e", "]">>

TagValue ==
    <<"[", "V", "a", "l", "u", "e", "]">>

TagAbort ==
    <<"[", "A", "b", "o", "r", "t", "]">>

TagReadOnly ==
    <<"[", "R", "e", "a", "d", "O", "n", "l", "y", "]">>

TagSerialization ==
    <<"[", "S", "e", "r", "i", "a", "l", "i", "z", "a", "t", "i", "o", "n",
      "]">>

TagNotLeader ==
    <<"[", "N", "o", "t", "L", "e", "a", "d", "e", "r", "]">>

MsgAbort ==
    <<"[", "A", "b", "o", "r", "t", "]", " ", "O", "p", "e", "r", "a", "t",
      "i", "o", "n", " ", "a", "b", "o", "r", "t", "e", "d">>

MsgReadOnly ==
    <<"[", "R", "e", "a", "d", "O", "n", "l", "y", "]", " ", "R", "e", "a",
      "d", "-", "o", "n", "l", "y", " ", "t", "r", "a", "n", "s", "a", "c",
      "t", "i", "o", "n">>

MsgSerialization ==
    <<"[", "S", "e", "r", "i", "a", "l", "i", "z", "a", "t", "i", "o", "n",
      "]", " ", "S", "e", "r", "i", "a", "l", "i", "z", "a", "t", "i", "o",
      "n", " ", "f", "a", "i", "l", "u", "r", "e", ",", " ", "r", "e", "t",
      "r", "y", " ", "t", "r", "a", "n", "s", "a", "c", "t", "i", "o", "n">>

MsgNotLeader ==
    <<"[", "N", "o", "t", "L", "e", "a", "d", "e", "r", "]", " ", "N", "o",
      "t", " ", "l", "e", "a", "d", "e", "r">>

UnknownPrefix ==
    <<"U", "n", "k", "n", "o", "w", "n", " ", "e", "r", "r", "o", "r", " ",
      "t", "y", "p", "e", ":", " ">>

Tags ==
    {TagConfig, TagInternal, TagParse, TagValue, TagAbort, TagReadOnly,
     TagSerialization, TagNotLeader}

\* faulty variant: the format strings lack the space after the tag
ToStatusNoSpace(err) ==
    LET msg ==
          CASE err.kind = "Config" -> TagConfig \o err.detail
            [] err.kind = "Internal" -> TagInternal \o err.detail
            [] err.kind = "Parse" -> TagParse \o err.detail
            [] err.kind = "Value" -> TagValue \o err.detail
            [] err.kind = "Abort" -> MsgAbort
            [] err.kind = "ReadOnly" -> MsgReadOnly
            [] err.kind = "Serialization" -> MsgSerialization
            [] err.kind = "NotLeader" -> MsgNotLeader
    IN [code |-> "Internal", message |-> msg]

\* impl From<Error> for tonic::Status
ToStatus(err) ==
    LET msg ==
          CASE err.kind = "Config" -> TagConfig \o <<SP>> \o err.detail
            [] err.kind = "Internal" -> TagInternal \o <<SP>> \o err.detail
            [] err.kind = "Parse" -> TagParse \o <<SP>> \o err.detail
            [] err.kind = "Value" -> TagValue \o <<SP>> \o err.detail
            [] err.kind = "Abort" -> MsgAbort
            [] err.kind = "ReadOnly" -> MsgReadOnly
            [] err.kind = "Serialization" -> MsgSerialization
            [] err.kind = "NotLeader" -> MsgNotLeader
    IN [code |-> "Internal", message |-> msg]

\* faulty variant: empty chunks are dropped, as str::split_whitespace does
RECURSIVE SplitTokens(_)
SplitTokens(m) ==
    IF \A i \in DOMAIN m : m[i] # SP THEN (IF m = <<>> THEN <<>> ELSE <<m>>)
    ELSE LET i == CHOOSE k \in DOMAIN m :
                      m[k] = SP /\ \A j \in 1..(k-1) : m[j] # SP
             front == SubSeq(m, 1, i - 1)
         IN (IF front = <<>> THEN <<>> ELSE <<front>>)
                \o SplitTokens(SubSeq(m, i + 1, Len(m)))

SplitDropEmpty(m) ==
    IF SplitTokens(m) = <<>> THEN << <<>> >> ELSE SplitTokens(m)

\* str::split(" "): the chunks between the spaces, empty ones included;
\* there is always at least one chunk
RECURSIVE Split(_)
Split(m) ==
    IF \A i \in DOMAIN m : m[i] # SP THEN <<m>>
    ELSE LET i == CHOOSE k \in DOMAIN m :
                      m[k] = SP /\ \A j \in 1..(k-1) : m[j] # SP
         IN <<SubSeq(m, 1, i - 1)>> \o Split(SubSeq(m, i + 1, Len(m)))

\* [&str]::join(" ")
RECURSIVE Join(_)
Join(chunks) ==
    IF chunks = <<>> THEN <<>>
    ELSE IF Len(chunks) = 1 THEN chunks[1]
    ELSE chunks[1] \o <<SP>> \o Join(Tail(chunks))

\* char::escape_debug as used by <str as Debug>::fmt
EscapeDebug(c) ==
    CASE c = TAB -> <<BSL, "t">>
      [] c = NL -> <<BSL, "n">>
      [] c = DQ -> <<BSL, DQ>>
      [] c = BSL -> <<BSL, BSL>>
      [] OTHER -> <<c>>

RECURSIVE EscapeAll(_)
EscapeAll(m) ==
    IF m = <<>> THEN <<>> ELSE EscapeDebug(Head(m)) \o EscapeAll(Tail(m))

\* format!("{:?}", message)
DebugFmt(m) == <<DQ>> \o EscapeAll(m) \o <<DQ>>

\* faulty variant: the fallback does not carry the message
FromStatusDropsMessage(st) ==
    LET chunks == Split(st.message)
        rest == Join(Tail(chunks))
    IN CASE chunks[1] = TagConfig -> [kind |-> "Config", detail |-> rest]
         [] chunks[1] = TagInternal -> [kind |-> "Internal", detail |-> rest]
         [] chunks[1] = TagParse -> [kind |-> "Parse", detail |-> rest]
         [] chunks[1] = TagValue -> [kind |-> "Value", detail |-> rest]
         [] chunks[1] = TagAbort -> [kind |-> "Abort"]
         [] chunks[1] = TagReadOnly -> [kind |-> "ReadOnly"]
         [] chunks[1] = TagSerialization -> [kind |-> "Serialization"]
         [] chunks[1] = TagNotLeader -> [kind |-> "NotLeader"]
         [] OTHER -> [kind |-> "Internal", detail |-> UnknownPrefix]

\* faulty variant: two arms of the match are exchanged
FromStatusSwapped(st) ==
    LET chunks == Split(st.message)
        rest == Join(Tail(chunks))
    IN CASE chunks[1] = TagConfig -> [kind |-> "Config", detail |-> rest]
         [] chunks[1] = TagInternal -> [kind |-> "Internal", detail |-> rest]
         [] chunks[1] = TagParse -> [kind |-> "Parse", detail |-> rest]
         [] chunks[1] = TagValue -> [kind |-> "Value", detail |-> rest]
         [] chunks[1] = TagAbort -> [kind |-> "ReadOnly"]
         [] chunks[1] = TagReadOnly -> [kind |-> "Abort"]
         [] chunks[1] = TagSerialization -> [kind |-> "Serialization"]
         [] chunks[1] = TagNotLeader -> [kind |-> "NotLeader"]
         [] OTHER -> [kind |-> "Internal",
                      detail |-> UnknownPrefix \o DebugFmt(st.message)]

\* impl From<tonic::Status> for Error
FromStatus(st) ==
    LET chunks == Split(st.message)
        rest == Join(Tail(chunks))
    IN CASE chunks[1] = TagConfig -> [kind |-> "Config", detail |-> rest]
         [] chunks[1] = TagInternal -> [kind |-> "Internal", detail |-> rest]
         [] chunks[1] = TagParse -> [kind |-> "Parse", detail |-> rest]
         [] chunks[1] = TagValue -> [kind |-> "Value", detail |-> rest]
         [] chunks[1] = TagAbort -> [kind |-> "Abort"]
         [] chunks[1] = TagReadOnly -> [kind |-> "ReadOnly"]
         [] chunks[1] = TagSerialization -> [kind |-> "Serialization"]
         [] chunks[1] = TagNotLeader -> [kind |-> "NotLeader"]
         [] OTHER -> [kind |-> "Internal",
                      detail |-> UnknownPrefix \o DebugFmt(st.message)]

\* the statuses a remote peer, conforming or not, can send
Separators == {<<>>, <<SP>>, <<TAB>>, <<NL>>, <<SP, SP>>}
PeerMessages ==
    Details \cup
        {pre \o tag \o sep \o post :
            pre \in Strings(MaxPre), tag \in Tags, sep \in Separators,
            post \in Strings(MaxPost)}
PeerCodes == {"Internal", "Unavailable"}

\* the codec is handed either a local Error to send or a Status received
CodecInput ==
    /\ cout = NoError
    /\ \/ cin \in Errors /\ status = NoStatus
       \/ /\ cin = NoError
          /\ status \in {[code |-> c, message |-> m] :
                            c \in PeerCodes, m \in PeerMessages}

\* tonic::Status::from(err)
Encode ==
    /\ cin # NoError
    /\ status = NoStatus
    /\ status' = ToStatus(cin)
    /\ UNCHANGED <<tsoVars, rpc, cin, cout>>

\* Error::from(status)
Decode ==
    /\ status # NoStatus
    /\ cout = NoError
    /\ cout' = FromStatus(status)
    /\ UNCHANGED <<tsoVars, rpc, cin, status>>

CodecNext == Encode \/ Decode

CodecInit == New(U64(0)) /\ overflowChecks = FALSE /\ CodecInput

CodecSpec == CodecInit /\ [][CodecNext]_vars

----------------------------------------------------------------------------
(* Properties of the timestamp oracle *)

Issued == {results[i].value : i \in DOMAIN results}
Quiescent == \A t \in Callers : pc[t] \in {"idle", "done"}

\* C1: from a fresh FeatherPD, once N calls have run (under any
\* interleaving) and none is in progress, the returned values are exactly
\* 1..N with no duplicate; N calls that never overlapped returned 1, 2, ..., N
\* in that order.
C1_ExactlyOneToN ==
    /\ Cardinality(Issued) = Len(results)
    /\ Quiescent => Issued = {U64(n) : n \in 1..Len(results)}
    /\ sequential => \A i \in DOMAIN results : results[i].value = U64(i)

C1_Witness ==
    /\ \A t \in Callers : pc[t] = "done"
    /\ ~sequential
    /\ Len(results) = NumCallers
    /\ results[1].caller # 1

\* C2: of two calls, the one that returns later returns the strictly
\* greater value.
C2_ReturnOrderIsValueOrder ==
    \A i, j \in DOMAIN results :
        i < j => U64Less(results[i].value, results[j].value)

\* C5: a call that finds the Mutex poisoned returns an Internal error to its
\* caller; it does not panic and returns no timestamp.
C5_PoisonedLockReturnsInternal ==
    \A t \in Callers :
        metPoison[t] => outcome[t] = "err_internal" /\ pc[t] # "panicked"

\* C6: every GetTimestamp RPC that was handled has been answered with a
\* reply carrying the oracle's timestamp; the handler does not abort.
C6_GetTimestampReplies ==
    \A r \in RpcIds :
        rpc[r].method = "GetTimestamp" =>
            /\ rpc[r].state = "replied"
            /\ rpc[r].timestamp \in Issued

\* C9: with no panicking caller and fair scheduling, every call that entered
\* get_next_ts returns; the Mutex is held only between lock() and the end of
\* the function body, and by at most the caller that is incrementing or
\* reading.
C9_EveryCallReturns ==
    /\ \A t \in Callers : (pc[t] = "lock") ~> (pc[t] = "done")
    /\ [](\A t \in Callers :
            /\ holder = t => pc[t] \in {"inc", "read", "unlock"}
            /\ pc[t] \in {"inc", "read", "unlock"} => holder = t)

C9_Witness ==
    \E t, u, w \in Callers :
        /\ pc[t] = "done"
        /\ pc[u] = "lock"
        /\ holder = w
        /\ pc[w] = "read"

\* C10: the counter never decreases, and a value it stores is greater than
\* every value returned earlier, also when it holds u64::MAX.
C10_CounterNeverWraps ==
    [][/\ U64Leq(counter, counter')
       /\ counter' # counter =>
            \A i \in DOMAIN results : U64Less(results[i].value, counter')]_vars

----------------------------------------------------------------------------
(* Properties of the codec *)

Decoded == status # NoStatus /\ cout # NoError
IsPrefix(p, m) == Len(p) <= Len(m) /\ SubSeq(m, 1, Len(p)) = p
Contains(d, m) ==
    \E i \in 0..(Len(d) - Len(m)) : SubSeq(d, i + 1, i + Len(m)) = m
StartsWithTag(m) == \E tag \in Tags : IsPrefix(tag, m)

\* C3: decoding the status that encode produced for an Error gives back
\* that Error, for every kind and every associated string.
C3_RoundTrip == (cin # NoError /\ Decoded) => cout = cin

C3_Witness ==
    /\ Decoded
    /\ cin = [kind |-> "Value", detail |-> <<"a", SP, SP, "a">>]
    /\ cout = cin

\* C4 (as stated): a message that does not start with a recognized tag
\* decodes to Internal(d) where d contains the message text unchanged.
C4_FallbackContainsMessage ==
    (Decoded /\ ~StartsWithTag(status.message)) =>
        /\ cout.kind = "Internal"
        /\ Contains(cout.detail, status.message)

RECURSIVE Unescape(_)
Unescape(e) ==
    IF e = <<>> THEN <<>>
    ELSE IF e[1] = BSL /\ Len(e) >= 2
         THEN <<(CASE e[2] = "t" -> TAB [] e[2] = "n" -> NL [] OTHER -> e[2])>>
                  \o Unescape(SubSeq(e, 3, Len(e)))
         ELSE <<e[1]>> \o Unescape(Tail(e))
NeedsEscape(m) == \E i \in DOMAIN m : m[i] \in {TAB, NL, DQ, BSL}

\* C4 (amended): a message that does not start with a recognized tag
\* decodes to Internal(d) where d is "Unknown error type: " followed by the
\* message in double quotes with tab, newline, double quote and backslash
\* escaped; the message is recovered by unescaping, and d contains it
\* unchanged when it has no such character.
C4_FallbackQuotesMessage ==
    (Decoded /\ ~StartsWithTag(status.message)) =>
        LET d == cout.detail
            n == Len(UnknownPrefix)
        IN /\ cout.kind = "Internal"
           /\ Len(d) >= n + 2
           /\ SubSeq(d, 1, n) = UnknownPrefix
           /\ d[n + 1] = DQ
           /\ d[Len(d)] = DQ
           /\ Unescape(SubSeq(d, n + 2, Len(d) - 1)) = status.message
           /\ ~NeedsEscape(status.message) => Contains(d, status.message)

C4_Witness ==
    /\ Decoded
    /\ status.message = <<"a", TAB, DQ>>
    /\ cout.kind = "Internal"
    /\ ~Contains(cout.detail, status.message)

KindOfTag(tag) ==
    CASE tag = TagConfig -> "Config"
      [] tag = TagInternal -> "Internal"
      [] tag = TagParse -> "Parse"
      [] tag = TagValue -> "Value"
      [] tag = TagAbort -> "Abort"
      [] tag = TagReadOnly -> "ReadOnly"
      [] tag = TagSerialization -> "Serialization"
      [] tag = TagNotLeader -> "NotLeader"

\* the part of m before its first character of seps (m itself if none)
FirstToken(m, seps) ==
    IF \A i \in DOMAIN m : m[i] \notin seps THEN m
    ELSE LET i == CHOOSE k \in DOMAIN m :
                      m[k] \in seps /\ \A j \in 1..(k-1) : m[j] \notin seps
         IN SubSeq(m, 1, i - 1)

TagDecodes(token) ==
    /\ cout.kind = KindOfTag(token)
    /\ KindOfTag(token) \in UnitKinds => cout = [kind |-> KindOfTag(token)]

\* C7 (as stated): when the first token of the message, delimited by a
\* space, a tab or a newline, is a recognized tag, decode returns the kind of
\* that tag.
C7_WhitespaceTokenDecides ==
    (Decoded /\ FirstToken(status.message, {SP, TAB, NL}) \in Tags) =>
        TagDecodes(FirstToken(status.message, {SP, TAB, NL}))

\* C7 (amended): decode splits on the space character only: when the part
\* of the message before its first space is a recognized tag, decode returns
\* the kind of that tag, for the four kinds without a string whatever
\* follows; a tag followed by a tab or a newline is not recognized and gives
\* the Internal fallback.
C7_SpaceTokenDecides ==
    /\ (Decoded /\ FirstToken(status.message, {SP}) \in Tags) =>
          TagDecodes(FirstToken(status.message, {SP}))
    /\ \A tag \in Tags :
          (/\ Decoded
           /\ IsPrefix(tag, status.message)
           /\ Len(status.message) > Len(tag)
           /\ status.message[Len(tag) + 1] \in {TAB, NL}) =>
              /\ cout.kind = "Internal"
              /\ IsPrefix(UnknownPrefix, cout.detail)

C7_Witness ==
    /\ Decoded
    /\ cin = NoError
    /\ status.message = TagReadOnly \o <<SP, SP>> \o <<"a", TAB>>
    /\ cout = [kind |-> "ReadOnly"]

C8_NameConfig ==
    <<"C", "o", "n", "f", "i", "g">>

C8_NameInternal ==
    <<"I", "n", "t", "e", "r", "n", "a", "l">>

C8_NameParse ==
    <<"P", "a", "r", "s", "e">>

C8_NameValue ==
    <<"V", "a", "l", "u", "e">>

C8_NameAbort ==
    <<"A", "b", "o", "r", "t">>

C8_NameReadOnly ==
    <<"R", "e", "a", "d", "O", "n", "l", "y">>

C8_NameSerialization ==
    <<"S", "e", "r", "i", "a", "l", "i", "z", "a", "t", "i", "o", "n">>

C8_NameNotLeader ==
    <<"N", "o", "t", "L", "e", "a", "d", "e", "r">>

C8_PhraseAbort ==
    <<"O", "p", "e", "r", "a", "t", "i", "o", "n", " ", "a", "b", "o", "r",
      "t", "e", "d">>

C8_PhraseReadOnly ==
    <<"R", "e", "a", "d", "-", "o", "n", "l", "y", " ", "t", "r", "a", "n",
      "s", "a", "c", "t", "i", "o", "n">>

C8_PhraseSerialization ==
    <<"S", "e", "r", "i", "a", "l", "i", "z", "a", "t", "i", "o", "n", " ",
      "f", "a", "i", "l", "u", "r", "e", ",", " ", "r", "e", "t", "r", "y",
      " ", "t", "r", "a", "n", "s", "a", "c", "t", "i", "o", "n">>

C8_PhraseNotLeader ==
    <<"N", "o", "t", " ", "l", "e", "a", "d", "e", "r">>

C8_Name(kind) ==
    CASE kind = "Config" -> C8_NameConfig
      [] kind = "Internal" -> C8_NameInternal
      [] kind = "Parse" -> C8_NameParse
      [] kind = "Value" -> C8_NameValue
      [] kind = "Abort" -> C8_NameAbort
      [] kind = "ReadOnly" -> C8_NameReadOnly
      [] kind = "Serialization" -> C8_NameSerialization
      [] kind = "NotLeader" -> C8_NameNotLeader

C8_Detail(err) ==
    CASE err.kind \in StringKinds -> err.detail
      [] err.kind = "Abort" -> C8_PhraseAbort
      [] err.kind = "ReadOnly" -> C8_PhraseReadOnly
      [] err.kind = "Serialization" -> C8_PhraseSerialization
      [] err.kind = "NotLeader" -> C8_PhraseNotLeader

\* C8: encode gives every Error the same status code and the message
\* "[<Kind>] <detail>", with the associated string or the fixed phrase of the
\* kind as detail; no other Error encodes to the same message.
C8_EncodeFormat ==
    (cin # NoError /\ status # NoStatus) =>
        /\ status.code = "Internal"
        /\ status.message =
              <<"[">> \o C8_Name(cin.kind) \o <<"]", SP>> \o C8_Detail(cin)
        /\ \A e \in Errors : e # cin => ToStatus(e).message # status.message

C8_Witness ==
    /\ cin = [kind |-> "Config", detail |-> <<>>]
    /\ status # NoStatus
    /\ status.message = TagConfig \o <<SP>>

====
